---- MODULE Spec2Model ----
(***************************************************************************)
(* The device registry of the FUB building energy dashboard                *)
(* (src/streamlit_app.py): st.session_state.building_data, the functions   *)
(* that build and change it, and the handlers of the three pages.          *)
(*                                                                         *)
(* Strings the code processes character by character (room names, device   *)
(* ids) are sequences of one-character strings; "" is <<>>.                *)
(* Decimal numbers are exact: energy_kwh, cost_taka and carbon_emissions   *)
(* are integers in hundredths (the code rounds them to two places or sets  *)
(* them to 0), current is a fraction [num, den], the unrounded energy      *)
(* sample is an integer in 1/10000 kWh.  Floating-point error is not       *)
(* modelled.                                                               *)
(***************************************************************************)
EXTENDS Integers, Sequences, FiniteSets, TLC

VARIABLES
    building_data,  \* st.session_state.building_data: device id -> record
    page,           \* the sidebar radio's page
    metrics,        \* the summary the overview shows: <<>> when not shown
    last,           \* the operation handled last, with its arguments and outcome
    prev,           \* building_data before that operation (history)
    created,        \* each present id's record as it was inserted (history)
    repeat          \* the last set_status repeats the call right before it (history)

vars == <<building_data, page, metrics, last, prev, created, repeat>>

(***************************************************************************)
(* Bounds and input sets.                                                  *)
(***************************************************************************)
\* Outcomes of the random generator explored: one table offset per seed.
NumSeeds == 2

Room101 == <<"R", "o", "o", "m", "1", "0", "1">>
Room602 == <<"R", "o", "o", "m", "6", "0", "2">>
D1 == <<"D", "1">>
Lab == <<"L", "a", "b">>

\* What the operator types into "Device ID" and "Room Name".
TypedIds == {<<>>, Room101, D1}
TypedNames == {<<>>, Lab}
\* The other fields of the add form.
FormProfiles ==
    { [floor |-> "Ground", device_type |-> "AC", initial_status |-> "ON", power_rating |-> 1500],
      [floor |-> "5", device_type |-> "Other", initial_status |-> "OFF", power_rating |-> 0] }
\* The devices whose buttons the operator presses.
ClickIds == {Room101, Room602, D1}
\* The ids update_device_status and the Delete handler are called on directly.
DirectIds == {Room101, D1}
ScheduleOnTimes == {"08:00", "09:30"}
ScheduleOffTimes == {"17:00"}

(***************************************************************************)
(* Program constants.                                                      *)
(***************************************************************************)
Voltage == 220
TariffTenths == 85
EmissionFactor == 500
PowerMin == 800
PowerMax == 2000
EnergyMin == 5
EnergyMax == 25

Pages == {"Building Overview", "Room Details", "Device Management"}

RoomName(a, b, c) == <<"R", "o", "o", "m", " ", a, b, c>>

get_building_structure ==
    << [floor |-> "Ground", rooms |-> <<RoomName("1","0","1"), RoomName("1","0","2"), RoomName("1","0","3")>>],
       [floor |-> "1", rooms |-> <<RoomName("2","0","1"), RoomName("2","0","2"), RoomName("2","0","3"), RoomName("2","0","4")>>],
       [floor |-> "2", rooms |-> <<RoomName("3","0","1"), RoomName("3","0","2"), RoomName("3","0","3")>>],
       [floor |-> "3", rooms |-> <<RoomName("4","0","1"), RoomName("4","0","2"), RoomName("4","0","3"), RoomName("4","0","4")>>],
       [floor |-> "4", rooms |-> <<RoomName("5","0","1"), RoomName("5","0","2")>>],
       [floor |-> "5", rooms |-> <<RoomName("6","0","1"), RoomName("6","0","2"), RoomName("6","0","3")>>] >>

FloorNames == {get_building_structure[i].floor : i \in 1..Len(get_building_structure)}

\* The (floor, room) pairs in the order the two nested loops visit them.
RECURSIVE RoomsFrom(_, _)
RoomsFrom(structure, i) ==
    IF i > Len(structure) THEN <<>>
    ELSE [j \in 1..Len(structure[i].rooms) |->
             [floor |-> structure[i].floor, room |-> structure[i].rooms[j]]]
         \o RoomsFrom(structure, i + 1)

\* room.replace(" ", "")
RemoveSpacesDropLast(room) == SelectSeq(SubSeq(room, 1, Len(room) - 1), LAMBDA c : c # " ")

RemoveSpaces(room) == SelectSeq(room, LAMBDA c : c # " ")

\* round(n / d, 0) for n >= 0, d > 0: nearest integer, ties to even.
Round(n, d) ==
    LET q == n \div d
        r == n % d
    IN  IF 2 * r < d THEN q
        ELSE IF 2 * r > d THEN q + 1
        ELSE IF q % 2 = 0 THEN q ELSE q + 1

\* The values the generator draws; no sample sits on a rounding tie.
PowerTable == <<PowerMin, PowerMax, 1500, 1234>>
EnergyTable == <<EnergyMin * 10000, 50040, EnergyMax * 10000 - 1, 123456, 180025>>

\* random.randint(800, 2000) for room number i under a seed
PowerSample(seed, i) == PowerTable[((seed + i) % Len(PowerTable)) + 1]
\* random.uniform(5, 25), in 1/10000 kWh
EnergySample(seed, i) == EnergyTable[((2 * seed + i) % Len(EnergyTable)) + 1]
\* random.choice([True, False])
StatusSample(seed, i) == (((seed + 1) * i) \div 2) % 2 = 0

GenRecordCarbonFromCost(seed, floor, room, i) ==
    LET room_id == RemoveSpaces(room)
        power == PowerSample(seed, i)
        energy == EnergySample(seed, i)
    IN  [room_id |-> room_id,
         room_name |-> room,
         floor |-> floor,
         ac_status |-> StatusSample(seed, i),
         power |-> power,
         voltage |-> Voltage,
         current |-> [num |-> Round(power * 100, Voltage), den |-> 100],
         energy_kwh |-> Round(energy, 100),
         cost_taka |-> Round(energy * TariffTenths, 1000),
         carbon_emissions |-> Round(energy * TariffTenths, 1000) * EmissionFactor]

\* One pass of the inner loop body: the record of a room.
GenRecord(seed, floor, room, i) ==
    LET room_id == RemoveSpaces(room)
        power == PowerSample(seed, i)
        energy == EnergySample(seed, i)
    IN  [room_id |-> room_id,
         room_name |-> room,
         floor |-> floor,
         ac_status |-> StatusSample(seed, i),
         power |-> power,
         voltage |-> Voltage,
         current |-> [num |-> Round(power * 100, Voltage), den |-> 100],
         energy_kwh |-> Round(energy, 100),
         cost_taka |-> Round(energy * TariffTenths, 1000),
         carbon_emissions |-> Round(energy * EmissionFactor, 100)]

\* data[room_id] = {...} for every room: a later room with the same key overwrites.
generate_synthetic_data(seed) ==
    LET rooms == RoomsFrom(get_building_structure, 1)
        key(i) == RemoveSpaces(rooms[i].room)
        keys == {key(i) : i \in 1..Len(rooms)}
        final(k) == CHOOSE i \in 1..Len(rooms) :
                        key(i) = k /\ \A j \in (i + 1)..Len(rooms) : key(j) # k
    IN  [k \in keys |-> GenRecord(seed, rooms[final(k)].floor, rooms[final(k)].room, final(k))]

(***************************************************************************)
(* The registry operations, as functions of the registry.                  *)
(***************************************************************************)
\* Python's None, and the truth value of a str or a dict: non-empty.
None == [py_none |-> TRUE]
TruthyStr(s) == Len(s) > 0
TruthyDict(v) == IF v = None THEN FALSE ELSE DOMAIN v # {}

\* building_data.get(device_id)
get(data, device_id) == IF device_id \in DOMAIN data THEN data[device_id] ELSE None

Without(data, device_id) == [k \in DOMAIN data \ {device_id} |-> data[k]]
With(data, device_id, record) ==
    [k \in DOMAIN data \cup {device_id} |-> IF k = device_id THEN record ELSE data[k]]

\* The dict the add form builds; current is power_rating / 220, not rounded.
new_device(device_id, room_name, form) ==
    [room_id |-> device_id,
     room_name |-> room_name,
     floor |-> form.floor,
     device_type |-> form.device_type,
     ac_status |-> (form.initial_status = "ON"),
     power |-> form.power_rating,
     voltage |-> Voltage,
     current |-> [num |-> form.power_rating, den |-> Voltage],
     energy_kwh |-> 0,
     cost_taka |-> 0,
     carbon_emissions |-> 0]

update_device_status_toggle(data, device_id, status) ==
    IF device_id \in DOMAIN data
    THEN [data |-> [data EXCEPT ![device_id].ac_status = ~data[device_id].ac_status],
          ret |-> "True"]
    ELSE [data |-> data, ret |-> "False"]

update_device_status_setdefault(data, device_id, status) ==
    [data |-> With(data, device_id,
                   IF device_id \in DOMAIN data
                   THEN [data[device_id] EXCEPT !.ac_status = status]
                   ELSE new_device(device_id, device_id,
                                   [floor |-> "Ground", device_type |-> "AC",
                                    initial_status |-> IF status THEN "ON" ELSE "OFF",
                                    power_rating |-> 0])),
     ret |-> IF device_id \in DOMAIN data THEN "True" ELSE "False"]

update_device_status_resets(data, device_id, status) ==
    IF device_id \in DOMAIN data
    THEN [data |-> [data EXCEPT ![device_id].ac_status = status, ![device_id].power = 0],
          ret |-> "True"]
    ELSE [data |-> data, ret |-> "False"]

update_device_status(data, device_id, status) ==
    IF device_id \in DOMAIN data
    THEN [data |-> [data EXCEPT ![device_id].ac_status = status], ret |-> "True"]
    ELSE [data |-> data, ret |-> "False"]

add_device_id_only(data, device_id, room_name, form) ==
    IF TruthyStr(device_id)
    THEN [data |-> With(data, device_id, new_device(device_id, room_name, form)),
          message |-> "success", rerun |-> TRUE]
    ELSE [data |-> data, message |-> "error", rerun |-> FALSE]

\* The body of "if submitted:".
add_device(data, device_id, room_name, form) ==
    IF TruthyStr(device_id) /\ TruthyStr(room_name)
    THEN [data |-> With(data, device_id, new_device(device_id, room_name, form)),
          message |-> "success", rerun |-> TRUE]
    ELSE [data |-> data, message |-> "error", rerun |-> FALSE]

delete_device_only_off(data, device_id) ==
    IF TruthyDict(get(data, device_id)) /\ ~data[device_id].ac_status
    THEN Without(data, device_id) ELSE data

\* The body of the "Delete" button.
delete_device(data, device_id) ==
    IF TruthyDict(get(data, device_id)) THEN Without(data, device_id) ELSE data

set_schedule_switches_on(data, selected_room, schedule_on, schedule_off) ==
    [data EXCEPT ![selected_room].ac_status = TRUE]

\* The body of the "Set Schedule" button: a message only.
set_schedule(data, selected_room, schedule_on, schedule_off) == data

\* The body of the "Edit" button: a message only.
edit_device(data, device_id) == data

(***************************************************************************)
(* The building overview's summary.                                        *)
(***************************************************************************)
RECURSIVE SumOver(_, _)
SumOver(values, keys) ==
    IF keys = {} THEN 0
    ELSE LET k == CHOOSE x \in keys : TRUE
         IN  values[k] + SumOver(values, keys \ {k})

\* sum(room[field] for room in building_data.values()) and the active count
Metrics(data) ==
    [total_energy |-> SumOver([k \in DOMAIN data |-> data[k].energy_kwh], DOMAIN data),
     total_cost |-> SumOver([k \in DOMAIN data |-> data[k].cost_taka], DOMAIN data),
     total_carbon |-> SumOver([k \in DOMAIN data |-> data[k].carbon_emissions], DOMAIN data),
     active_devices |-> SumOver([k \in DOMAIN data |-> IF data[k].ac_status THEN 1 ELSE 0], DOMAIN data),
     total_devices |-> Cardinality(DOMAIN data)]

\* main(): one run of the script shows the page selected.
Render(p, data) == IF p = "Building Overview" THEN <<Metrics(data)>> ELSE <<>>

RunWithoutRerun(p, at_start, now, rerun) == Render(p, at_start)

\* A run renders the registry as it is when the run starts; st.rerun() starts
\* the script again on the registry as it is now.
Run(p, at_start, now, rerun) == IF rerun THEN Render(p, now) ELSE Render(p, at_start)

\* selected_room_option.split(" - ")[0]
SepAt(s, i) == i + 2 <= Len(s) /\ s[i] = " " /\ s[i + 1] = "-" /\ s[i + 2] = " "
SplitHead(s) ==
    IF \E i \in 1..Len(s) : SepAt(s, i)
    THEN LET first == CHOOSE i \in 1..Len(s) : SepAt(s, i) /\ \A j \in 1..(i - 1) : ~SepAt(s, j)
         IN  SubSeq(s, 1, first - 1)
    ELSE s
RoomOption(room_id, data) == room_id \o <<" ", "-", " ">> \o data[room_id].room_name

(***************************************************************************)
(* State machine: one action per user event, each a whole run of the       *)
(* script (the handler, then the re-render st.rerun() causes).             *)
(***************************************************************************)
Call(op, device_id, room_name, status, ret, message) ==
    [op |-> op, device_id |-> device_id, room_name |-> room_name,
     status |-> status, ret |-> ret, message |-> message]

\* The history variables follow the registry: an id's creation record is the
\* record its latest insertion stored.
Commit(data, p, view, call) ==
    /\ building_data' = data
    /\ page' = p
    /\ metrics' = view
    /\ last' = call
    /\ prev' = building_data
    /\ created' = [k \in DOMAIN data |->
                     IF k \in DOMAIN building_data
                        /\ ~(call.op = "add" /\ call.message = "success" /\ call.device_id = k)
                     THEN created[k] ELSE data[k]]
    /\ repeat' = /\ call.op = "set_status"
                 /\ last.op = "set_status"
                 /\ call.device_id = last.device_id
                 /\ call.status = last.status

\* if 'building_data' not in st.session_state: ... = generate_synthetic_data()
Init ==
    \E seed \in 0..(NumSeeds - 1) :
        /\ building_data = generate_synthetic_data(seed)
        /\ page = "Building Overview"
        /\ metrics = Render("Building Overview", building_data)
        /\ last = Call("generate", <<>>, <<>>, FALSE, "None", "none")
        /\ prev = building_data
        /\ created = building_data
        /\ repeat = FALSE

\* The sidebar radio.
Navigate(p) ==
    Commit(building_data, p, Run(p, building_data, building_data, FALSE),
           Call("navigate", <<>>, <<>>, FALSE, "None", "none"))

\* Building Overview: "Turn ON" / "Turn OFF" of a room tile of the selected floor.
TurnOnOff(selected_floor, room_id, status) ==
    /\ page = "Building Overview"
    /\ room_id \in DOMAIN building_data
    /\ building_data[room_id].floor = selected_floor
    /\ LET r == update_device_status(building_data, room_id, status)
       IN  Commit(r.data, page, Run(page, building_data, r.data, TRUE),
                  Call("set_status", room_id, <<>>, status, r.ret, "none"))

\* Room Details: "Turn ON AC" / "Turn OFF AC" of the room selected.
ToggleAC(room_id) ==
    /\ page = "Room Details"
    /\ room_id \in DOMAIN building_data
    /\ LET selected_room == SplitHead(RoomOption(room_id, building_data))
       IN  /\ selected_room \in DOMAIN building_data
           /\ LET status == ~building_data[selected_room].ac_status
                  r == update_device_status(building_data, selected_room, status)
              IN  Commit(r.data, page, Run(page, building_data, r.data, TRUE),
                         Call("set_status", selected_room, <<>>, status, r.ret, "none"))

\* Room Details: "Set Schedule".
SetSchedule(room_id, schedule_on, schedule_off) ==
    /\ page = "Room Details"
    /\ room_id \in DOMAIN building_data
    /\ LET selected_room == SplitHead(RoomOption(room_id, building_data))
       IN  /\ selected_room \in DOMAIN building_data
           /\ LET data == set_schedule(building_data, selected_room, schedule_on, schedule_off)
              IN  Commit(data, page, Run(page, building_data, data, FALSE),
                         Call("schedule", selected_room, <<>>, FALSE, "None", "success"))

\* Device Management: the "Add Device" form submitted.
AddDevice(device_id, room_name, form) ==
    /\ page = "Device Management"
    /\ LET r == add_device(building_data, device_id, room_name, form)
       IN  Commit(r.data, page, Run(page, building_data, r.data, r.rerun),
                  Call("add", device_id, room_name, form.initial_status = "ON", "None", r.message))

\* Device Management: "ON" / "OFF" of a listed device.
ManageOnOff(device_id, status) ==
    /\ page = "Device Management"
    /\ device_id \in DOMAIN building_data
    /\ LET r == update_device_status(building_data, device_id, status)
       IN  Commit(r.data, page, Run(page, building_data, r.data, TRUE),
                  Call("set_status", device_id, <<>>, status, r.ret, "none"))

\* Device Management: "Edit" of a listed device.
EditDevice(device_id) ==
    /\ page = "Device Management"
    /\ device_id \in DOMAIN building_data
    /\ LET data == edit_device(building_data, device_id)
       IN  Commit(data, page, Run(page, building_data, data, FALSE),
                  Call("edit", device_id, <<>>, FALSE, "None", "info"))

\* Device Management: "Delete" of a listed device.
DeleteDevice(device_id) ==
    /\ page = "Device Management"
    /\ device_id \in DOMAIN building_data
    /\ LET data == delete_device(building_data, device_id)
       IN  Commit(data, page, Run(page, building_data, data, data # building_data),
                  Call("delete", device_id, <<>>, FALSE, "None", "none"))

Next ==
    \/ \E p \in Pages : Navigate(p)
    \/ \E f \in FloorNames, id \in ClickIds, s \in BOOLEAN : TurnOnOff(f, id, s)
    \/ \E id \in ClickIds : ToggleAC(id)
    \/ \E id \in ClickIds, t1 \in ScheduleOnTimes, t2 \in ScheduleOffTimes : SetSchedule(id, t1, t2)
    \/ \E id \in TypedIds, n \in TypedNames, f \in FormProfiles : AddDevice(id, n, f)
    \/ \E id \in ClickIds, s \in BOOLEAN : ManageOnOff(id, s)
    \/ \E id \in ClickIds : EditDevice(id)
    \/ \E id \in ClickIds : DeleteDevice(id)

Spec == Init /\ [][Next]_vars

(***************************************************************************)
(* The same machine with the two operations that take an id also called    *)
(* on ids the pages never pass: update_device_status is a module-level     *)
(* function, and the Delete handler guards itself with .get(device_id).    *)
(* Such a call renders nothing.                                            *)
(***************************************************************************)
CallUpdateDeviceStatus(device_id, status) ==
    LET r == update_device_status(building_data, device_id, status)
    IN  Commit(r.data, page, metrics, Call("set_status", device_id, <<>>, status, r.ret, "none"))

CallDelete(device_id) ==
    LET data == delete_device(building_data, device_id)
    IN  Commit(data, page, metrics, Call("delete", device_id, <<>>, FALSE, "None", "none"))

NextApi ==
    \/ Next
    \/ \E id \in DirectIds, s \in BOOLEAN : CallUpdateDeviceStatus(id, s)
    \/ \E id \in DirectIds : CallDelete(id)

SpecApi == Init /\ [][NextApi]_vars

(***************************************************************************)
(* Properties.                                                             *)
(***************************************************************************)
Abs(x) == IF x < 0 THEN -x ELSE x
Added(record) == "device_type" \in DOMAIN record

\* C1: an add whose device id is already a key of the registry leaves the
\* registry as it was and ends in a rejection, not a success.
AddExistingIdRejected ==
    (last.op = "add" /\ last.device_id \in DOMAIN prev)
        => (building_data = prev /\ last.message = "error")

\* C2: an add with an empty device id or an empty room name ends in the error
\* message and leaves the registry as it was.
AddEmptyFieldRejected ==
    (last.op = "add" /\ (last.device_id = <<>> \/ last.room_name = <<>>))
        => (building_data = prev /\ last.message = "error")

AddEmptyNameSeen ==
    /\ last.op = "add"
    /\ last.device_id = D1
    /\ last.room_name = <<>>
    /\ last.message = "error"

\* C3: update_device_status on an id that is not a key returns False and leaves
\* the registry as it was, for both values of status.
SetStatusAbsentIsNoOp ==
    (last.op = "set_status" /\ last.device_id \notin DOMAIN prev)
        => (last.ret = "False" /\ building_data = prev)

SetStatusAbsentSeen ==
    /\ last.op = "set_status"
    /\ last.device_id \notin DOMAIN prev
    /\ last.status = TRUE
    /\ last.ret = "False"

\* C4: a set_status that repeats the call right before it (same id, same
\* status) changes nothing and returns what that call returned.
SetStatusIdempotent ==
    [][ (/\ last.op = "set_status"
         /\ last'.op = "set_status"
         /\ last'.device_id = last.device_id
         /\ last'.status = last.status)
        => (building_data' = building_data /\ last'.ret = last.ret) ]_vars

SetStatusRepeatedSeen ==
    /\ repeat
    /\ last.device_id \in DOMAIN building_data
    /\ last.ret = "True"
    /\ building_data = prev

\* C5: deleting a present id removes that record and no other, a lookup of the
\* id then finds nothing, and the summary drops by the record's contribution;
\* deleting an absent id leaves the registry as it was.
DeleteRemovesOnlyThatRecord ==
    last.op = "delete" =>
        LET id == last.device_id
            before == Metrics(prev)
            after == Metrics(building_data)
        IN  IF id \in DOMAIN prev
            THEN /\ get(building_data, id) = None
                 /\ DOMAIN building_data = DOMAIN prev \ {id}
                 /\ \A k \in DOMAIN building_data : building_data[k] = prev[k]
                 /\ after.total_devices = before.total_devices - 1
                 /\ after.active_devices =
                        before.active_devices - (IF prev[id].ac_status THEN 1 ELSE 0)
                 /\ after.total_energy = before.total_energy - prev[id].energy_kwh
                 /\ after.total_cost = before.total_cost - prev[id].cost_taka
                 /\ after.total_carbon = before.total_carbon - prev[id].carbon_emissions
            ELSE building_data = prev

DeleteOfActiveRecordSeen ==
    /\ last.op = "delete"
    /\ last.device_id \in DOMAIN prev
    /\ prev[last.device_id].ac_status
    /\ prev[last.device_id].energy_kwh > 0
    /\ last.device_id \notin DOMAIN building_data

\* C6: whenever the overview is shown, its summary is the sums and counts over
\* the records the registry holds now.
OverviewShowsCurrentAggregate ==
    page = "Building Overview" =>
        LET ids == DOMAIN building_data
        IN  metrics =
              << [total_energy |-> SumOver([k \in ids |-> building_data[k].energy_kwh], ids),
                  total_cost |-> SumOver([k \in ids |-> building_data[k].cost_taka], ids),
                  total_carbon |-> SumOver([k \in ids |-> building_data[k].carbon_emissions], ids),
                  active_devices |-> Cardinality({k \in ids : building_data[k].ac_status}),
                  total_devices |-> Cardinality(ids)] >>

OverviewAfterMutationsSeen ==
    /\ page = "Building Overview"
    /\ last.op = "set_status"
    /\ building_data # prev
    /\ D1 \in DOMAIN building_data
    /\ Room602 \notin DOMAIN building_data

\* C7: the generated registry holds one record per room of the building
\* structure, keyed by the room name without its spaces, no two rooms sharing a
\* key, each record carrying the floor whose list holds the room.
GenerationOneRecordPerRoom ==
    last.op = "generate" =>
        LET structure == get_building_structure
            rooms == RoomsFrom(structure, 1)
            key(i) == SelectSeq(rooms[i].room, LAMBDA c : c # " ")
        IN  /\ Cardinality(DOMAIN building_data) = Len(rooms)
            /\ \A i \in 1..Len(rooms) :
                  /\ key(i) \in DOMAIN building_data
                  /\ building_data[key(i)].room_id = key(i)
                  /\ building_data[key(i)].room_name = rooms[i].room
                  /\ \E f \in 1..Len(structure) :
                        /\ structure[f].floor = building_data[key(i)].floor
                        /\ \E j \in 1..Len(structure[f].rooms) :
                              structure[f].rooms[j] = rooms[i].room
            /\ \A i, j \in 1..Len(rooms) : i # j => key(i) # key(j)

GenerationSeen ==
    /\ last.op = "generate"
    /\ Cardinality(DOMAIN building_data) = 19
    /\ building_data[Room602].floor = "5"

\* C8 as stated: every stored record has power >= 0, voltage 220,
\* current = power / voltage, cost = energy * 8.5 and carbon = energy * 500.
DerivedFieldsExact ==
    \A k \in DOMAIN building_data :
        LET r == building_data[k]
        IN  /\ r.power >= 0
            /\ r.voltage = Voltage
            /\ r.current.num * r.voltage = r.power * r.current.den
            /\ r.cost_taka * 10 = r.energy_kwh * TariffTenths
            /\ r.carbon_emissions = r.energy_kwh * EmissionFactor

\* C8, amended: every stored record has power >= 0 and voltage 220; an added
\* record satisfies the three relationships exactly; a generated record
\* satisfies them up to the two-place rounding of each stored field:
\* |current - power/220| <= 0.005, |cost - energy*8.5| <= 0.0475,
\* |carbon - energy*500| <= 2.505.
DerivedFieldsUpToRounding ==
    \A k \in DOMAIN building_data :
        LET r == building_data[k]
        IN  /\ r.power >= 0
            /\ r.voltage = Voltage
            /\ IF Added(r)
               THEN /\ r.current.num * r.voltage = r.power * r.current.den
                    /\ r.cost_taka * 10 = r.energy_kwh * TariffTenths
                    /\ r.carbon_emissions = r.energy_kwh * EmissionFactor
               ELSE /\ 200 * Abs(r.current.num * r.voltage - r.power * r.current.den)
                          <= r.current.den * r.voltage
                    /\ Abs(20 * r.cost_taka - 2 * TariffTenths * r.energy_kwh) <= 95
                    /\ 2 * Abs(r.carbon_emissions - EmissionFactor * r.energy_kwh) <= 501

GeneratedAndAddedRecordsSeen ==
    /\ D1 \in DOMAIN building_data
    /\ building_data[D1].power > 0
    /\ \E k \in DOMAIN building_data :
          /\ ~Added(building_data[k])
          /\ building_data[k].carbon_emissions # building_data[k].energy_kwh * EmissionFactor
          /\ building_data[k].cost_taka * 10 # building_data[k].energy_kwh * TariffTenths

\* C9: "Set Schedule", "Edit" and page navigation leave the registry as it
\* was, and a record's status differs from what it was before the last
\* operation only when that operation was a set_status or an add.
StatusChangesOnlyBySetStatusOrAdd ==
    /\ last.op \in {"generate", "navigate", "schedule", "edit"} => building_data = prev
    /\ (\E k \in DOMAIN building_data \cap DOMAIN prev :
            building_data[k].ac_status # prev[k].ac_status)
          => last.op \in {"set_status", "add"}

ScheduleOnOffRoomSeen ==
    /\ last.op = "schedule"
    /\ last.device_id \in DOMAIN building_data
    /\ ~building_data[last.device_id].ac_status

====
